---- MODULE Spec2Model ----
(***************************************************************************)
(* A model of alphainspect/reports.py.                                     *)
(*                                                                         *)
(* Part 1: ipynb_to_html, the notebook export adapter.  Every call is a    *)
(* small process: validate the template, build the composite command,     *)
(* hand it to os.system, wait for the conversion, maybe open the output,   *)
(* return.  Several calls may be in flight at once (one per caller); they  *)
(* share nothing but the operating-system environment of the parent.      *)
(*                                                                         *)
(* Part 2: the four sheet builders create_2x2_sheet, create_1x3_sheet,     *)
(* create_2x3_sheet and create_3x2_sheet, one action per statement.        *)
(*                                                                         *)
(* Strings that the code inspects character by character (paths) are       *)
(* sequences of one-character strings.  Paths use POSIX syntax.            *)
(***************************************************************************)
EXTENDS Integers, Sequences, FiniteSets, TLC

VARIABLES
    osname,     \* os.name: "nt" or "posix"
    environ,    \* os.environ of the calling process
    pc,         \* pc[p]: where call p of ipynb_to_html stands
    args,       \* args[p]: the arguments call p was given
    template,   \* template[p]: the local `template` (after lines 68-69)
    output,     \* output[p]: the local `output` (after lines 73-75)
    command,    \* command[p]: the local `command` (line 80)
    kwargs,     \* kwargs[p]: the local `kwargs` (after line 83)
    cmds,       \* cmds[p]: the local `cmds` (lines 87-91)
    ret,        \* ret[p]: the local `ret` (line 100)
    shells,     \* shells[p]: the os.system invocations call p has made
    result,     \* result[p]: what call p returned
    sheet,      \* sheet[b]: the sheet builder build b is running
    spc,        \* spc[b]: the statement build b stands at
    sargs,      \* sargs[b]: the arguments build b was given
    grid,       \* grid[b]: the figure of plt.subplots, its shape and axes
    loc,        \* loc[b]: the local variables of build b
    calls,      \* calls[b]: the analytic adapter calls build b has made
    sret        \* sret[b]: what build b returned

nbvars == <<osname, environ, pc, args, template, output, command, kwargs,
            cmds, ret, shells, result>>
sheetvars == <<sheet, spc, sargs, grid, loc, calls, sret>>
vars == <<nbvars, sheetvars>>

----------------------------------------------------------------------------
(* Bounds of the model *)

\* longest extra keyword dictionary a call is given
MaxKw == 2
\* most path segments of a template path
MaxSegs == 2
\* longest `periods` sequence a sheet builder is given
MaxPeriods == 3
\* most rows of the quantile column of a dataset
MaxRows == 2

----------------------------------------------------------------------------
(* Character strings *)

Ipynb == <<".", "i", "p", "y", "n", "b">>
Html == <<".", "h", "t", "m", "l">>
Slash == <<"/">>

\* str.endswith
EndsWith(s, suffix) ==
    /\ Len(s) >= Len(suffix)
    /\ SubSeq(s, Len(s) - Len(suffix) + 1, Len(s)) = suffix

\* str.replace(old, new): every non-overlapping occurrence, left to right
RECURSIVE Replace(_, _, _)
Replace(s, old, new) ==
    IF Len(s) < Len(old) THEN s
    ELSE IF SubSeq(s, 1, Len(old)) = old
         THEN new \o Replace(SubSeq(s, Len(old) + 1, Len(s)), old, new)
         ELSE <<s[1]>> \o Replace(Tail(s), old, new)

\* the working directory of the calling process
Cwd == <<"/", "w">>

\* Path(p).absolute(): an absolute path is kept, a relative one is joined
\* to the working directory; nothing is normalised or resolved
Absolute(p) == IF Len(p) > 0 /\ p[1] = "/" THEN p ELSE Cwd \o Slash \o p

\* str.upper on the keys a caller may pass
Upper(k) == CASE k = "a" -> "A"
              [] k = "b" -> "B"
              [] OTHER -> k

Digits == <<"0", "1", "2", "3", "4", "5", "6", "7", "8", "9">>

\* str(v) of a small non-negative integer
RECURSIVE Str(_)
Str(v) == IF v < 10 THEN Digits[v + 1]
          ELSE Str(v \div 10) \o Digits[(v % 10) + 1]

----------------------------------------------------------------------------
(* The inputs a caller may pass to ipynb_to_html *)

Procs == {1, 2}

Segs == {<<"a">>, <<"a">> \o Ipynb}

RECURSIVE PathsOf(_)
PathsOf(n) == IF n = 1 THEN Segs
              ELSE {s \o Slash \o t : s \in Segs, t \in PathsOf(n - 1)}

RelPaths == UNION {PathsOf(n) : n \in 1..MaxSegs}

Templates == RelPaths \cup {Slash \o t : t \in RelPaths}

\* output: None (given = FALSE) or a path
NoOutput == [given |-> FALSE, path |-> <<>>]
Outputs == {NoOutput,
            [given |-> TRUE, path |-> <<"o">> \o Html]}

Timeouts == {30, 120}

Keys == {"a", "A", "b"}
KwVals == {1, 2}

\* **kwargs: an ordered dictionary, a sequence of <<key, value>> with
\* distinct keys
KwargsOfLen(n) ==
    {kw \in [1..n -> Keys \X KwVals] :
        \A i, j \in 1..n : i # j => kw[i][1] # kw[j][1]}

Kwargs == UNION {KwargsOfLen(n) : n \in 0..MaxKw}

ArgsFull ==
    [template : Templates, output : Outputs,
     no_input : BOOLEAN, no_prompt : BOOLEAN, execute : BOOLEAN,
     timeout : Timeouts, open_browser : BOOLEAN, kwargs : Kwargs]

\* the calls of the concurrent scenario: the command-line options are left
\* at their defaults and the extra key/value pairs vary
ArgsConc ==
    [template : {<<"a">> \o Ipynb}, output : {NoOutput},
     no_input : {FALSE}, no_prompt : {FALSE}, execute : {TRUE},
     timeout : {120}, open_browser : {TRUE}, kwargs : Kwargs]

NoArgs == [template |-> <<>>, output |-> NoOutput,
           no_input |-> FALSE, no_prompt |-> FALSE, execute |-> FALSE,
           timeout |-> 0, open_browser |-> FALSE, kwargs |-> <<>>]

NoCommand == [prog |-> "", template |-> <<>>, to |-> "", output |-> <<>>,
              no_input |-> "", no_prompt |-> "", execute |-> "",
              allow_errors |-> "", timeout |-> 0]

EnvNames == {"A", "B"}
Unset == "<unset>"
Environ0 == [n \in EnvNames |-> IF n = "A" THEN "0" ELSE Unset]

ExitCodes == {0, 1, 2}

----------------------------------------------------------------------------
(* ipynb_to_html, statement by statement *)

TemplateOk_contains(t) ==
    \E i \in 1..Len(t) : i + Len(Ipynb) - 1 <= Len(t)
                         /\ SubSeq(t, i, i + Len(Ipynb) - 1) = Ipynb

\* line 70: template.endswith('.ipynb')
TemplateOk(t) == EndsWith(t, Ipynb)

\* lines 73-75: the output path
OutputPath(t, o) ==
    Absolute(IF ~o.given THEN Replace(t, Ipynb, Html) ELSE o.path)

\* lines 77-80: the conversion command, field by field of the f-string
Command(t, o, a) ==
    [prog |-> "jupyter nbconvert", template |-> t, to |-> "--to=html",
     output |-> o,
     no_input |-> IF a.no_input THEN "--no-input" ELSE "",
     no_prompt |-> IF a.no_prompt THEN "--no-prompt" ELSE "",
     execute |-> IF a.execute THEN "--execute" ELSE "",
     allow_errors |-> "--allow-errors", timeout |-> a.timeout]

\* d[k] = v on an ordered dictionary: a present key keeps its place and
\* takes the new value, a new key goes last
RECURSIVE DictSet(_, _, _)
DictSet(d, k, v) ==
    IF d = <<>> THEN <<<<k, v>>>>
    ELSE IF d[1][1] = k THEN <<<<k, v>>>> \o Tail(d)
         ELSE <<d[1]>> \o DictSet(Tail(d), k, v)

\* line 83: {k.upper(): str(v) for k, v in kwargs.items()}
RECURSIVE UpperDictFrom(_, _)
UpperDictFrom(kw, acc) ==
    IF kw = <<>> THEN acc
    ELSE UpperDictFrom(Tail(kw), DictSet(acc, Upper(kw[1][1]), Str(kw[1][2])))

UpperDict(kw) == UpperDictFrom(kw, <<>>)

\* lines 87-91: one set/export statement per item, then the command
Verb(os) == IF os = "nt" THEN "set" ELSE "export"

Cmds_commandFirst(os, kw, c) ==
    <<<<"run", c>>>> \o [i \in 1..Len(kw) |-> <<Verb(os), kw[i][1], kw[i][2]>>]

Cmds(os, kw, c) ==
    [i \in 1..Len(kw) |-> <<Verb(os), kw[i][1], kw[i][2]>>] \o <<<<"run", c>>>>

EnvironAfterBuild_update(env, kw) ==
    [n \in EnvNames |->
        IF \E i \in 1..Len(kw) : kw[i][1] = n
        THEN kw[CHOOSE i \in 1..Len(kw) : kw[i][1] = n][2]
        ELSE env[n]]

\* lines 84-85: os.environ is deliberately left alone
\* (the os.environ.update(kwargs) of line 85 is commented out)
EnvironAfterBuild(env, kw) == env

\* what a shell makes of one statement: `export K=V` binds K on posix,
\* `set K=V` binds K on nt; the run statement binds nothing
Bind(os, env, st) ==
    IF st[1] = Verb(os) /\ st[1] # "run" /\ Len(st) = 3
    THEN [env EXCEPT ![st[2]] = st[3]]
    ELSE env

\* the environment the last statement of a composite a && b && ... runs
\* in: the shell starts from a copy of its parent's environment and the
\* statements before the last one act on that copy, left to right
RECURSIVE ShellEnv(_, _, _)
ShellEnv(os, stmts, env) ==
    IF Len(stmts) <= 1 THEN env
    ELSE ShellEnv(os, Tail(stmts), Bind(os, env, stmts[1]))

\* the value of os.system for a shell whose last command exits with
\* `code`: the exit code on nt, the 16-bit wait status on posix
OsSystem(os, code) ==
    IF os = "nt" THEN code ELSE (code * 256) % 65536

ShouldOpen_ignoreRet(r, open_browser) == open_browser

\* line 101: ret == 0 and open_browser
ShouldOpen(r, open_browser) == r = 0 /\ open_browser

NoRet == -1

\* a caller enters ipynb_to_html with arguments drawn from A; the locals
\* of the call are fresh
Call(p, A) ==
    /\ pc[p] = "idle"
    /\ \E a \in A : args' = [args EXCEPT ![p] = a]
    /\ pc' = [pc EXCEPT ![p] = "validate"]
    /\ UNCHANGED <<osname, environ, template, output, command, kwargs, cmds,
                   ret, shells, result>>

\* lines 68-71
Validate(p) ==
    /\ pc[p] = "validate"
    /\ LET t == Absolute(args[p].template)
       IN /\ template' = [template EXCEPT ![p] = t]
          /\ pc' = [pc EXCEPT ![p] =
                        IF TemplateOk(t) THEN "build" ELSE "raised"]
    /\ UNCHANGED <<osname, environ, args, output, command, kwargs, cmds,
                   ret, shells, result>>

\* lines 73-98
Build(p) ==
    /\ pc[p] = "build"
    /\ LET o == OutputPath(template[p], args[p].output)
           c == Command(template[p], o, args[p])
           kw == UpperDict(args[p].kwargs)
       IN /\ output' = [output EXCEPT ![p] = o]
          /\ command' = [command EXCEPT ![p] = c]
          /\ kwargs' = [kwargs EXCEPT ![p] = kw]
          /\ cmds' = [cmds EXCEPT ![p] = Cmds(osname, kw, c)]
          /\ environ' = EnvironAfterBuild(environ, kw)
    /\ pc' = [pc EXCEPT ![p] = "system"]
    /\ UNCHANGED <<osname, args, template, ret, shells, result>>

\* line 100, first half: os.system starts a shell on the composite command;
\* the shell inherits a copy of the parent's environment as it is now
System(p) ==
    /\ pc[p] = "system"
    /\ shells' = [shells EXCEPT ![p] =
                     Append(@, [what |-> "convert", stmts |-> cmds[p],
                                env |-> ShellEnv(osname, cmds[p], environ),
                                code |-> NoRet])]
    /\ pc' = [pc EXCEPT ![p] = "running"]
    /\ UNCHANGED <<osname, environ, args, template, output, command, kwargs,
                   cmds, ret, result>>

\* line 100, second half: the conversion exits and os.system returns
ConvExit(p) ==
    /\ pc[p] = "running"
    /\ \E code \in ExitCodes :
          /\ shells' = [shells EXCEPT ![p][Len(shells[p])].code = code]
          /\ ret' = [ret EXCEPT ![p] = OsSystem(osname, code)]
    /\ pc' = [pc EXCEPT ![p] = "open"]
    /\ UNCHANGED <<osname, environ, args, template, output, command, kwargs,
                   cmds, result>>

\* lines 101-103: the second os.system, whose value is dropped
Open(p) ==
    /\ pc[p] = "open"
    /\ shells' = [shells EXCEPT ![p] =
                     IF ShouldOpen(ret[p], args[p].open_browser)
                     THEN Append(@, [what |-> "open",
                                     stmts |-> <<<<"run", output[p]>>>>,
                                     env |-> environ, code |-> NoRet])
                     ELSE @]
    /\ pc' = [pc EXCEPT ![p] = "return"]
    /\ UNCHANGED <<osname, environ, args, template, output, command, kwargs,
                   cmds, ret, result>>

\* line 104
Return(p) ==
    /\ pc[p] = "return"
    /\ result' = [result EXCEPT ![p] = ret[p]]
    /\ pc' = [pc EXCEPT ![p] = "done"]
    /\ UNCHANGED <<osname, environ, args, template, output, command, kwargs,
                   cmds, ret, shells>>

----------------------------------------------------------------------------
(* The sheet builders: data *)

Builds == {1, 2}

\* the names a caller may give the quantile column (_QUANTILE_ by default)
QuantileNames == {"factor_quantile", "fq"}

\* the labels of the quantile buckets
Labels == {1, 2, 3}

\* the quantile column of a dataset, row by row
QuantileColumns ==
    UNION {[1..n -> Labels] : n \in 1..MaxRows}

\* a dataset df_pl: the name of its quantile column and that column
DataSets == [fqname : QuantileNames, fq : QuantileColumns]
NoData == [fqname |-> "", fq |-> <<>>]

PeriodVals == {2, 5, 10}
PeriodSeqs == UNION {[1..n -> PeriodVals] : n \in 1..MaxPeriods}
SinglePeriods == {1, 5}

\* axvlines: a sequence of time labels
AxvLines == {<<>>, <<"d1", "d2">>}

NoSheetArgs ==
    [df_pl |-> NoData, factor |-> "", forward_return |-> "", fwd_ret_1 |-> "",
     period |-> 0, periods |-> <<>>, factor_quantile |-> "", axvlines |-> <<>>]

\* the calls a caller may make: the column names are the caller's, the
\* quantile column named is a column of the dataset
SheetArgs(periodSet, periodsSet) ==
    {[df_pl |-> d, factor |-> "f", forward_return |-> "r5",
      fwd_ret_1 |-> "r1", period |-> p, periods |-> ps,
      factor_quantile |-> d.fqname, axvlines |-> av] :
        d \in DataSets, p \in periodSet, ps \in periodsSet, av \in AxvLines}

\* the keyword arguments each builder takes
Args2x2 == SheetArgs(SinglePeriods, {<<>>})
Args1x3 == SheetArgs(SinglePeriods, {<<>>})
Args2x3 == SheetArgs({0}, PeriodSeqs)
Args3x2 == SheetArgs(SinglePeriods, PeriodSeqs)

\* A table that is handed around: the dataset itself, or the result of an
\* analytic adapter.  The adapters are pure functions whose mathematics is
\* out of scope, so a result is identified by the adapter and the
\* arguments that produced it.
Series(fn, df, cols, period, periods, fq) ==
    [fn |-> fn, df |-> df, cols |-> cols, period |-> period,
     periods |-> periods, fq |-> fq]
NoSeries == Series("", NoData, <<>>, 0, <<>>, "")
Input(df) == Series("df_pl", df, <<>>, 0, <<>>, "")

\* alphainspect.ic.calc_ic(df_pl, factors, forward_returns)
calc_ic(df, factors, forward_returns) ==
    Series("calc_ic", df, factors \o forward_returns, 0, <<>>, "")

\* df_ic.columns: the date column, then one column per (factor, return)
Columns(df_ic) == <<"date", df_ic.cols[1] \o "__" \o df_ic.cols[2]>>

\* alphainspect.portfolio.calc_cum_return_by_quantile
calc_cum_return_by_quantile(df, fwd_ret_1, period, factor_quantile) ==
    Series("calc_cum_return_by_quantile", df, <<fwd_ret_1>>, period, <<>>,
           factor_quantile)

\* alphainspect.turnover.calc_auto_correlation
calc_auto_correlation(df, factor, periods) ==
    Series("calc_auto_correlation", df, <<factor>>, 0, periods, "")

\* alphainspect.turnover.calc_quantile_turnover
calc_quantile_turnover(df, periods, factor_quantile) ==
    Series("calc_quantile_turnover", df, <<>>, 0, periods, factor_quantile)

\* the column `name` of a turnover table: one sub-series per requested
\* period, each with the quantile labels of the input in row order
RECURSIVE TurnoverColumn(_, _)
TurnoverColumn(df_turnover, name) ==
    IF df_turnover.periods = <<>> \/ name # df_turnover.fq
          \/ name # df_turnover.df.fqname
    THEN <<>>
    ELSE df_turnover.df.fq
           \o TurnoverColumn([df_turnover EXCEPT !.periods = Tail(@)], name)

\* the summary mapping a renderer returns: plot_ic_ts and plot_hist derive
\* it from the table and the column they are given, nothing else
Summary(fn, data, col) == [fn |-> fn, of |-> data, col |-> col]
NoSummary == Summary("", NoSeries, "")

\* what a renderer has drawn into a slot
Panel(plot, data, col, period, periods, quantile, fq, axv) ==
    [plot |-> plot, data |-> data, col |-> col, period |-> period,
     periods |-> periods, quantile |-> quantile, fq |-> fq, axvlines |-> axv]

\* plt.subplots(nrows, ncols, squeeze=False): a 2-D array of blank axes
Subplots(nrows, ncols) ==
    [nrows |-> nrows, ncols |-> ncols,
     axes |-> [c \in (0..(nrows - 1)) \X (0..(ncols - 1)) |-> <<>>]]
NoGrid == Subplots(0, 0)

\* axes.flatten(): the slots of the 2-D array in row-major order
FlatLen(g) == g.nrows * g.ncols
Flat(g, k) == <<k \div g.ncols, k % g.ncols>>

\* drawing into axes[cell]
Draw(g, cell, panel) == [g EXCEPT !.axes[cell] = Append(@, panel)]

CeilHalf_floor(count) == count \div 2

\* ceil(count / 2): the true quotient rounded up
CeilHalf(count) == (count \div 2) + (IF count % 2 = 0 THEN 0 ELSE 1)

RECURSIVE SeqMin(_)
SeqMin(s) == IF Len(s) = 1 THEN s[1]
             ELSE LET m == SeqMin(Tail(s)) IN IF s[1] < m THEN s[1] ELSE m

\* Series.max()
RECURSIVE SeqMax(_)
SeqMax(s) == IF Len(s) = 1 THEN s[1]
             ELSE LET m == SeqMax(Tail(s)) IN IF s[1] > m THEN s[1] ELSE m

NoLoc == [count |-> 0, df_ic |-> NoSeries, col |-> "", df_cum_ret |-> NoSeries,
          df_auto_corr |-> NoSeries, df_turnover |-> NoSeries,
          q_min |-> 0, q_max |-> 0, ic_dict |-> NoSummary,
          hist_dict |-> NoSummary, i |-> 0, period |-> 0]

NoReturn == [fig |-> NoGrid, ic_dict |-> NoSummary, hist_dict |-> NoSummary,
             df_cum_ret |-> NoSeries]

SheetIdle ==
    /\ sheet = [b \in Builds |-> "none"]
    /\ spc = [b \in Builds |-> "idle"]
    /\ sargs = [b \in Builds |-> NoSheetArgs]
    /\ grid = [b \in Builds |-> NoGrid]
    /\ loc = [b \in Builds |-> NoLoc]
    /\ calls = [b \in Builds |-> <<>>]
    /\ sret = [b \in Builds |-> NoReturn]

----------------------------------------------------------------------------
(* The sheet builders: the statements they share *)

At(b, sh, label) == sheet[b] = sh /\ spc[b] = label
Goto(b, label) == spc' = [spc EXCEPT ![b] = label]

\* a caller enters builder sh with arguments drawn from A
Enter(b, sh, A) ==
    /\ spc[b] = "idle"
    /\ \E a \in A : sargs' = [sargs EXCEPT ![b] = a]
    /\ sheet' = [sheet EXCEPT ![b] = sh]
    /\ Goto(b, "subplots")
    /\ UNCHANGED <<nbvars, grid, loc, calls, sret>>

\* fig, axes = plt.subplots(nrows, ncols, ...)
DoSubplots(b, nrows, ncols, count, next) ==
    /\ grid' = [grid EXCEPT ![b] = Subplots(nrows, ncols)]
    /\ loc' = [loc EXCEPT ![b].count = count]
    /\ Goto(b, next)
    /\ UNCHANGED <<nbvars, sheet, sargs, calls, sret>>

\* the dataset and the columns every builder hands to calc_ic
IcCall_otherData(a) ==
    calc_ic(CHOOSE d \in DataSets : d # a.df_pl, <<a.factor>>,
            <<a.forward_return>>)

IcCall(a) == calc_ic(a.df_pl, <<a.factor>>, <<a.forward_return>>)

\* df_ic = calc_ic(df_pl, [factor], [forward_return]); col = df_ic.columns[1]
DoCalcIc(b, next) ==
    /\ LET df_ic == IcCall(sargs[b])
       IN /\ loc' = [loc EXCEPT ![b].df_ic = df_ic,
                                ![b].col = Columns(df_ic)[2]]
          /\ calls' = [calls EXCEPT ![b] = Append(@, df_ic)]
    /\ Goto(b, next)
    /\ UNCHANGED <<nbvars, sheet, sargs, grid, sret>>

CumRetCall_axvlines(a, period) ==
    calc_cum_return_by_quantile(a.df_pl, a.fwd_ret_1,
                                period + Len(a.axvlines), a.factor_quantile)

\* what every builder hands to calc_cum_return_by_quantile
CumRetCall(a, period) ==
    calc_cum_return_by_quantile(a.df_pl, a.fwd_ret_1, period,
                                a.factor_quantile)

\* df_cum_ret = calc_cum_return_by_quantile(df_pl, fwd_ret_1, period, ...)
DoCalcCumRet(b, period, next) ==
    /\ LET df_cum_ret == CumRetCall(sargs[b], period)
       IN /\ loc' = [loc EXCEPT ![b].df_cum_ret = df_cum_ret,
                                ![b].period = period]
          /\ calls' = [calls EXCEPT ![b] = Append(@, df_cum_ret)]
    /\ Goto(b, next)
    /\ UNCHANGED <<nbvars, sheet, sargs, grid, sret>>

\* a renderer draws `panel` into axes[k] of the flattened array; an index
\* past the end of the array raises IndexError
DrawFlat(b, k, panel, next) ==
    IF k \in 0..(FlatLen(grid[b]) - 1)
    THEN /\ grid' = [grid EXCEPT ![b] = Draw(@, Flat(@, k), panel)]
         /\ Goto(b, next)
    ELSE /\ Goto(b, "IndexError")
         /\ UNCHANGED grid

\* the panels of the renderers, from what the builders hand them
IcTsPanel(b) ==
    Panel("plot_ic_ts", loc[b].df_ic, loc[b].col, 0, <<>>, 0, "",
          sargs[b].axvlines)
IcHeatmapPanel(b) ==
    Panel("plot_ic_heatmap_monthly", loc[b].df_ic, loc[b].col, 0, <<>>, 0,
          "", <<>>)
IcHistPanel(b) ==
    Panel("plot_hist", loc[b].df_ic, loc[b].col, 0, <<>>, 0, "", <<>>)
FactorHistPanel(b) ==
    Panel("plot_hist", Input(sargs[b].df_pl), sargs[b].factor, 0, <<>>, 0,
          "", <<>>)
PortfolioPanel(b) ==
    Panel("plot_quantile_portfolio", loc[b].df_cum_ret, sargs[b].fwd_ret_1,
          loc[b].period, <<>>, 0, "", sargs[b].axvlines)

\* fig.tight_layout(), and the return of a builder that returns nothing
DoTightLayout(b) ==
    /\ Goto(b, "done")
    /\ UNCHANGED <<nbvars, sheet, sargs, grid, loc, calls, sret>>

\* a renderer draws `panel` into axes[r, c] of the 2-D array
Draw2D(b, cell, panel, next) ==
    IF cell \in DOMAIN grid[b].axes
    THEN /\ grid' = [grid EXCEPT ![b] = Draw(@, cell, panel)]
         /\ Goto(b, next)
    ELSE /\ Goto(b, "IndexError")
         /\ UNCHANGED grid

\* the summary mappings plot_ic_ts and plot_hist return
plot_ic_ts_result(df_ic, col, axvlines) == Summary("plot_ic_ts", df_ic, col)
plot_hist_result(data, col) == Summary("plot_hist", data, col)

----------------------------------------------------------------------------
(* create_2x2_sheet, lines 133-150 *)

B2x2_enter(b) ==
    /\ sheet[b] = "none"
    /\ Enter(b, "2x2", Args2x2)

B2x2_subplots(b) ==
    /\ At(b, "2x2", "subplots")
    /\ DoSubplots(b, 2, 2, 0, "calc_ic")

B2x2_calc_ic(b) ==
    /\ At(b, "2x2", "calc_ic")
    /\ DoCalcIc(b, "plot_ic_ts")

B2x2_plot_ic_ts(b) ==
    /\ At(b, "2x2", "plot_ic_ts")
    /\ DrawFlat(b, 0, IcTsPanel(b), "plot_ic_heatmap_monthly")
    /\ UNCHANGED <<nbvars, sheet, sargs, loc, calls, sret>>

B2x2_plot_ic_heatmap_monthly(b) ==
    /\ At(b, "2x2", "plot_ic_heatmap_monthly")
    /\ DrawFlat(b, 1, IcHeatmapPanel(b), "plot_hist")
    /\ UNCHANGED <<nbvars, sheet, sargs, loc, calls, sret>>

B2x2_plot_hist(b) ==
    /\ At(b, "2x2", "plot_hist")
    /\ DrawFlat(b, 2, FactorHistPanel(b), "calc_cum_return")
    /\ UNCHANGED <<nbvars, sheet, sargs, loc, calls, sret>>

B2x2_calc_cum_return(b) ==
    /\ At(b, "2x2", "calc_cum_return")
    /\ DoCalcCumRet(b, sargs[b].period, "plot_quantile_portfolio")

B2x2_plot_quantile_portfolio(b) ==
    /\ At(b, "2x2", "plot_quantile_portfolio")
    /\ DrawFlat(b, 3, PortfolioPanel(b), "tight_layout")
    /\ UNCHANGED <<nbvars, sheet, sargs, loc, calls, sret>>

B2x2_tight_layout(b) ==
    /\ At(b, "2x2", "tight_layout")
    /\ DoTightLayout(b)

----------------------------------------------------------------------------
(* create_1x3_sheet, lines 179-197 *)

B1x3_enter(b) ==
    /\ sheet[b] = "none"
    /\ Enter(b, "1x3", Args1x3)

\* the second of two calls that differ in axvlines only
B1x3_enter_again(b) ==
    /\ b # 1
    /\ sheet[b] = "none"
    /\ spc[1] # "idle"
    /\ Enter(b, "1x3",
             {a \in Args1x3 :
                 /\ a = [sargs[1] EXCEPT !.axvlines = a.axvlines]
                 /\ a.axvlines # sargs[1].axvlines})

B1x3_subplots(b) ==
    /\ At(b, "1x3", "subplots")
    /\ DoSubplots(b, 1, 3, 0, "calc_ic")

B1x3_calc_ic(b) ==
    /\ At(b, "1x3", "calc_ic")
    /\ DoCalcIc(b, "plot_ic_ts")

B1x3_plot_ic_ts(b) ==
    /\ At(b, "1x3", "plot_ic_ts")
    /\ DrawFlat(b, 0, IcTsPanel(b), "calc_cum_return")
    /\ loc' = [loc EXCEPT ![b].ic_dict =
                  plot_ic_ts_result(loc[b].df_ic, loc[b].col,
                                    sargs[b].axvlines)]
    /\ UNCHANGED <<nbvars, sheet, sargs, calls, sret>>

B1x3_calc_cum_return(b) ==
    /\ At(b, "1x3", "calc_cum_return")
    /\ DoCalcCumRet(b, sargs[b].period, "plot_quantile_portfolio")

B1x3_plot_quantile_portfolio(b) ==
    /\ At(b, "1x3", "plot_quantile_portfolio")
    /\ DrawFlat(b, 1, PortfolioPanel(b), "plot_hist")
    /\ UNCHANGED <<nbvars, sheet, sargs, loc, calls, sret>>

B1x3_plot_hist(b) ==
    /\ At(b, "1x3", "plot_hist")
    /\ DrawFlat(b, 2, FactorHistPanel(b), "tight_layout")
    /\ loc' = [loc EXCEPT ![b].hist_dict =
                  plot_hist_result(Input(sargs[b].df_pl), sargs[b].factor)]
    /\ UNCHANGED <<nbvars, sheet, sargs, calls, sret>>

\* fig.tight_layout(); return fig, ic_dict, hist_dict, df_cum_ret
B1x3_return(b) ==
    /\ At(b, "1x3", "tight_layout")
    /\ sret' = [sret EXCEPT ![b] =
                   [fig |-> grid[b], ic_dict |-> loc[b].ic_dict,
                    hist_dict |-> loc[b].hist_dict,
                    df_cum_ret |-> loc[b].df_cum_ret]]
    /\ Goto(b, "done")
    /\ UNCHANGED <<nbvars, sheet, sargs, grid, loc, calls>>

----------------------------------------------------------------------------
(* create_2x3_sheet, lines 225-243 *)

PortfolioSlot_fromTwo(i) == 2 + i

\* line 241: the slot of the i-th period, axes[3 + i]
PortfolioSlot(i) == 3 + i

B2x3_enter(b) ==
    /\ sheet[b] = "none"
    /\ Enter(b, "2x3", Args2x3)

\* count = len(periods) + 3; plt.subplots(2, ceil(count / 2), ...)
B2x3_subplots(b) ==
    /\ At(b, "2x3", "subplots")
    /\ LET count == Len(sargs[b].periods) + 3
       IN DoSubplots(b, 2, CeilHalf(count), count, "calc_ic")

B2x3_calc_ic(b) ==
    /\ At(b, "2x3", "calc_ic")
    /\ DoCalcIc(b, "plot_ic_ts")

B2x3_plot_ic_ts(b) ==
    /\ At(b, "2x3", "plot_ic_ts")
    /\ DrawFlat(b, 0, IcTsPanel(b), "plot_hist")
    /\ UNCHANGED <<nbvars, sheet, sargs, loc, calls, sret>>

B2x3_plot_hist(b) ==
    /\ At(b, "2x3", "plot_hist")
    /\ DrawFlat(b, 1, IcHistPanel(b), "plot_ic_heatmap_monthly")
    /\ UNCHANGED <<nbvars, sheet, sargs, loc, calls, sret>>

B2x3_plot_ic_heatmap_monthly(b) ==
    /\ At(b, "2x3", "plot_ic_heatmap_monthly")
    /\ DrawFlat(b, 2, IcHeatmapPanel(b), "for")
    /\ UNCHANGED <<nbvars, sheet, sargs, loc, calls, sret>>

\* for i, period in enumerate(periods): the next period, if any, and its
\* calc_cum_return_by_quantile
B2x3_calc_cum_return(b) ==
    /\ At(b, "2x3", "for")
    /\ loc[b].i < Len(sargs[b].periods)
    /\ DoCalcCumRet(b, sargs[b].periods[loc[b].i + 1],
                    "plot_quantile_portfolio")

B2x3_plot_quantile_portfolio(b) ==
    /\ At(b, "2x3", "plot_quantile_portfolio")
    /\ DrawFlat(b, PortfolioSlot(loc[b].i), PortfolioPanel(b), "for")
    /\ loc' = [loc EXCEPT ![b].i = @ + 1]
    /\ UNCHANGED <<nbvars, sheet, sargs, calls, sret>>

\* the loop is exhausted: fig.tight_layout()
B2x3_tight_layout(b) ==
    /\ At(b, "2x3", "for")
    /\ loc[b].i >= Len(sargs[b].periods)
    /\ DoTightLayout(b)

----------------------------------------------------------------------------
(* create_3x2_sheet, lines 274-298 *)

QMax_min(df_turnover, factor_quantile) ==
    SeqMin(TurnoverColumn(df_turnover, factor_quantile))

\* line 295: df_turnover[factor_quantile].max()
QMax(df_turnover, factor_quantile) ==
    SeqMax(TurnoverColumn(df_turnover, factor_quantile))

\* line 295: df_turnover[factor_quantile].min()
QMin(df_turnover, factor_quantile) ==
    SeqMin(TurnoverColumn(df_turnover, factor_quantile))

B3x2_enter(b) ==
    /\ sheet[b] = "none"
    /\ Enter(b, "3x2", Args3x2)

B3x2_subplots(b) ==
    /\ At(b, "3x2", "subplots")
    /\ DoSubplots(b, 3, 2, 0, "calc_ic")

B3x2_calc_ic(b) ==
    /\ At(b, "3x2", "calc_ic")
    /\ DoCalcIc(b, "plot_ic_ts")

B3x2_plot_ic_ts(b) ==
    /\ At(b, "3x2", "plot_ic_ts")
    /\ Draw2D(b, <<0, 0>>, IcTsPanel(b), "plot_hist")
    /\ UNCHANGED <<nbvars, sheet, sargs, loc, calls, sret>>

B3x2_plot_hist(b) ==
    /\ At(b, "3x2", "plot_hist")
    /\ Draw2D(b, <<0, 1>>, IcHistPanel(b), "plot_ic_heatmap_monthly")
    /\ UNCHANGED <<nbvars, sheet, sargs, loc, calls, sret>>

B3x2_plot_ic_heatmap_monthly(b) ==
    /\ At(b, "3x2", "plot_ic_heatmap_monthly")
    /\ Draw2D(b, <<1, 0>>, IcHeatmapPanel(b), "calc_cum_return")
    /\ UNCHANGED <<nbvars, sheet, sargs, loc, calls, sret>>

B3x2_calc_cum_return(b) ==
    /\ At(b, "3x2", "calc_cum_return")
    /\ DoCalcCumRet(b, sargs[b].period, "plot_quantile_portfolio")

B3x2_plot_quantile_portfolio(b) ==
    /\ At(b, "3x2", "plot_quantile_portfolio")
    /\ Draw2D(b, <<1, 1>>, PortfolioPanel(b), "calc_auto_correlation")
    /\ UNCHANGED <<nbvars, sheet, sargs, loc, calls, sret>>

\* line 291
B3x2_calc_auto_correlation(b) ==
    /\ At(b, "3x2", "calc_auto_correlation")
    /\ LET df == calc_auto_correlation(sargs[b].df_pl, sargs[b].factor,
                                       sargs[b].periods)
       IN /\ loc' = [loc EXCEPT ![b].df_auto_corr = df]
          /\ calls' = [calls EXCEPT ![b] = Append(@, df)]
    /\ Goto(b, "calc_quantile_turnover")
    /\ UNCHANGED <<nbvars, sheet, sargs, grid, sret>>

\* line 292
B3x2_calc_quantile_turnover(b) ==
    /\ At(b, "3x2", "calc_quantile_turnover")
    /\ LET df == calc_quantile_turnover(sargs[b].df_pl, sargs[b].periods,
                                        sargs[b].factor_quantile)
       IN /\ loc' = [loc EXCEPT ![b].df_turnover = df]
          /\ calls' = [calls EXCEPT ![b] = Append(@, df)]
    /\ Goto(b, "plot_factor_auto_correlation")
    /\ UNCHANGED <<nbvars, sheet, sargs, grid, sret>>

\* line 293
B3x2_plot_factor_auto_correlation(b) ==
    /\ At(b, "3x2", "plot_factor_auto_correlation")
    /\ Draw2D(b, <<2, 0>>,
              Panel("plot_factor_auto_correlation", loc[b].df_auto_corr, "",
                    0, <<>>, 0, "", sargs[b].axvlines),
              "q_min_q_max")
    /\ UNCHANGED <<nbvars, sheet, sargs, loc, calls, sret>>

\* line 295
B3x2_q_min_q_max(b) ==
    /\ At(b, "3x2", "q_min_q_max")
    /\ loc' = [loc EXCEPT
                  ![b].q_min = QMin(loc[b].df_turnover,
                                    sargs[b].factor_quantile),
                  ![b].q_max = QMax(loc[b].df_turnover,
                                    sargs[b].factor_quantile)]
    /\ Goto(b, "plot_turnover_quantile")
    /\ UNCHANGED <<nbvars, sheet, sargs, grid, calls, sret>>

\* line 296
B3x2_plot_turnover_quantile(b) ==
    /\ At(b, "3x2", "plot_turnover_quantile")
    /\ Draw2D(b, <<2, 1>>,
              Panel("plot_turnover_quantile", loc[b].df_turnover, "", 0,
                    sargs[b].periods, loc[b].q_max,
                    sargs[b].factor_quantile, sargs[b].axvlines),
              "tight_layout")
    /\ UNCHANGED <<nbvars, sheet, sargs, loc, calls, sret>>

B3x2_tight_layout(b) ==
    /\ At(b, "3x2", "tight_layout")
    /\ DoTightLayout(b)

----------------------------------------------------------------------------
(* Specifications *)

NbIdle ==
    /\ environ = Environ0
    /\ pc = [p \in Procs |-> "idle"]
    /\ args = [p \in Procs |-> NoArgs]
    /\ template = [p \in Procs |-> <<>>]
    /\ output = [p \in Procs |-> <<>>]
    /\ command = [p \in Procs |-> NoCommand]
    /\ kwargs = [p \in Procs |-> <<>>]
    /\ cmds = [p \in Procs |-> <<>>]
    /\ ret = [p \in Procs |-> NoRet]
    /\ shells = [p \in Procs |-> <<>>]
    /\ result = [p \in Procs |-> NoRet]

NbInit ==
    /\ osname \in {"nt", "posix"}
    /\ NbIdle
    /\ SheetIdle

\* one caller of ipynb_to_html, every combination of arguments
CallOne == Call(1, ArgsFull) /\ UNCHANGED sheetvars
ValidateOne == Validate(1) /\ UNCHANGED sheetvars
BuildOne == Build(1) /\ UNCHANGED sheetvars
SystemOne == System(1) /\ UNCHANGED sheetvars
ConvExitOne == ConvExit(1) /\ UNCHANGED sheetvars
OpenOne == Open(1) /\ UNCHANGED sheetvars
ReturnOne == Return(1) /\ UNCHANGED sheetvars

NextNb == \/ CallOne
          \/ ValidateOne
          \/ BuildOne
          \/ SystemOne
          \/ ConvExitOne
          \/ OpenOne
          \/ ReturnOne

SpecNb == NbInit /\ [][NextNb]_vars

\* two callers of ipynb_to_html at once
CallAny == (\E p \in Procs : Call(p, ArgsConc)) /\ UNCHANGED sheetvars
ValidateAny == (\E p \in Procs : Validate(p)) /\ UNCHANGED sheetvars
BuildAny == (\E p \in Procs : Build(p)) /\ UNCHANGED sheetvars
SystemAny == (\E p \in Procs : System(p)) /\ UNCHANGED sheetvars
ConvExitAny == (\E p \in Procs : ConvExit(p)) /\ UNCHANGED sheetvars
OpenAny == (\E p \in Procs : Open(p)) /\ UNCHANGED sheetvars
ReturnAny == (\E p \in Procs : Return(p)) /\ UNCHANGED sheetvars

NextConc == \/ CallAny
            \/ ValidateAny
            \/ BuildAny
            \/ SystemAny
            \/ ConvExitAny
            \/ OpenAny
            \/ ReturnAny

SpecConc == NbInit /\ [][NextConc]_vars

SheetInit ==
    /\ osname = "posix"
    /\ NbIdle
    /\ SheetIdle

\* one build of any of the four sheets
NextSheet ==
    \/ B2x2_enter(1)
    \/ B2x2_subplots(1)
    \/ B2x2_calc_ic(1)
    \/ B2x2_plot_ic_ts(1)
    \/ B2x2_plot_ic_heatmap_monthly(1)
    \/ B2x2_plot_hist(1)
    \/ B2x2_calc_cum_return(1)
    \/ B2x2_plot_quantile_portfolio(1)
    \/ B2x2_tight_layout(1)
    \/ B1x3_enter(1)
    \/ B1x3_subplots(1)
    \/ B1x3_calc_ic(1)
    \/ B1x3_plot_ic_ts(1)
    \/ B1x3_calc_cum_return(1)
    \/ B1x3_plot_quantile_portfolio(1)
    \/ B1x3_plot_hist(1)
    \/ B1x3_return(1)
    \/ B2x3_enter(1)
    \/ B2x3_subplots(1)
    \/ B2x3_calc_ic(1)
    \/ B2x3_plot_ic_ts(1)
    \/ B2x3_plot_hist(1)
    \/ B2x3_plot_ic_heatmap_monthly(1)
    \/ B2x3_calc_cum_return(1)
    \/ B2x3_plot_quantile_portfolio(1)
    \/ B2x3_tight_layout(1)
    \/ B3x2_enter(1)
    \/ B3x2_subplots(1)
    \/ B3x2_calc_ic(1)
    \/ B3x2_plot_ic_ts(1)
    \/ B3x2_plot_hist(1)
    \/ B3x2_plot_ic_heatmap_monthly(1)
    \/ B3x2_calc_cum_return(1)
    \/ B3x2_plot_quantile_portfolio(1)
    \/ B3x2_calc_auto_correlation(1)
    \/ B3x2_calc_quantile_turnover(1)
    \/ B3x2_plot_factor_auto_correlation(1)
    \/ B3x2_q_min_q_max(1)
    \/ B3x2_plot_turnover_quantile(1)
    \/ B3x2_tight_layout(1)

SpecSheet == SheetInit /\ [][NextSheet]_vars

\* two builds of the 1x3 sheet that differ in axvlines only, interleaved
NextPair ==
    \/ B1x3_enter(1)
    \/ B1x3_enter_again(2)
    \/ \E b \in Builds : B1x3_subplots(b)
    \/ \E b \in Builds : B1x3_calc_ic(b)
    \/ \E b \in Builds : B1x3_plot_ic_ts(b)
    \/ \E b \in Builds : B1x3_calc_cum_return(b)
    \/ \E b \in Builds : B1x3_plot_quantile_portfolio(b)
    \/ \E b \in Builds : B1x3_plot_hist(b)
    \/ \E b \in Builds : B1x3_return(b)

SpecPair == SheetInit /\ [][NextPair]_vars

----------------------------------------------------------------------------
(* Claims about ipynb_to_html *)

Started(p) == pc[p] # "idle"
Built(p) == pc[p] \in {"system", "running", "open", "return", "done"}
Finished(p) == pc[p] \in {"return", "done"}

\* the conversions / openers call p has handed to os.system so far
Conversions(p) == {i \in 1..Len(shells[p]) : shells[p][i].what = "convert"}
Openers(p) == {i \in 1..Len(shells[p]) : shells[p][i].what = "open"}

\* C1: a template whose absolute path does not end in '.ipynb' makes the
\* call fail before any os.system invocation: the call stops in the raised
\* state with no shell ever started and nothing returned, whatever the
\* other arguments are.
C1_NoSpawnOnBadTemplate ==
    \A p \in Procs :
        (Started(p) /\ ~EndsWith(Absolute(args[p].template), Ipynb))
            => /\ pc[p] \in {"validate", "raised"}
               /\ shells[p] = <<>>
               /\ result[p] = NoRet

C1_Witness ==
    /\ pc[1] = "raised"
    /\ args[1].template = <<"a">> \o Ipynb \o Slash \o <<"a">>
    /\ args[1].open_browser
    /\ args[1].kwargs # <<>>

\* the value the caller's extras give the name n, if any: the last pair
\* whose upper-cased key is n wins
Overrides(p, n) ==
    {i \in 1..Len(args[p].kwargs) : Upper(args[p].kwargs[i][1]) = n}
LastOverride(p, n) ==
    CHOOSE i \in Overrides(p, n) : \A j \in Overrides(p, n) : j <= i
OwnView(p) ==
    [n \in EnvNames |->
        IF Overrides(p, n) = {} THEN Environ0[n]
        ELSE Str(args[p].kwargs[LastOverride(p, n)][2])]

\* C2: the environment of the calling process is never changed by a call,
\* the extras of a call are visible in that call's conversion shell only
\* (not in its opener shell), and with two calls in flight each conversion
\* sees the parent's environment overridden by its own extras, never by
\* the other call's.
C2_EnvironIsolated ==
    /\ environ = Environ0
    /\ \A p \in Procs : \A i \in 1..Len(shells[p]) :
          shells[p][i].env =
              IF shells[p][i].what = "convert" THEN OwnView(p) ELSE Environ0

C2_Witness ==
    /\ pc[1] = "running" /\ pc[2] = "done"
    /\ Len(shells[2]) = 2
    /\ shells[1][1].env["A"] = "1"
    /\ shells[2][1].env["A"] = "2"
    /\ shells[2][1].env["B"] = "1"
    /\ shells[1][1].env["B"] = Unset
    /\ environ["A"] = "0"

\* C3 as stated: the call returns exactly the exit code of the conversion
\* process.
C3_ReturnsExitCode ==
    \A p \in Procs :
        pc[p] = "done" => result[p] = shells[p][1].code

\* C3, amended: the call returns exactly what os.system returned for the
\* composite command: the conversion's exit code on nt and that exit code
\* times 256 (the wait status) on posix, so zero exactly when the
\* conversion exited with zero.  A non-zero exit never raises.  The output
\* is opened exactly when the exit code is 0 and open_browser is true, only
\* after the conversion has exited, and the opening does not change the
\* returned value.
C3_ReturnsSystemStatus ==
    \A p \in Procs :
        /\ Len(shells[p]) <= 2
        /\ Openers(p) # {} =>
              /\ Len(shells[p]) = 2
              /\ shells[p][1].what = "convert"
              /\ shells[p][1].code = 0
              /\ shells[p][2].what = "open"
              /\ args[p].open_browser
              /\ ret[p] = 0
        /\ pc[p] = "raised" => shells[p] = <<>>
        /\ Finished(p) =>
              /\ shells[p][1].code \in ExitCodes
              /\ (Openers(p) # {}) <=>
                    (shells[p][1].code = 0 /\ args[p].open_browser)
              /\ ret[p] = (IF osname = "nt" THEN shells[p][1].code
                           ELSE 256 * shells[p][1].code)
              /\ (ret[p] = 0) <=> (shells[p][1].code = 0)
        /\ pc[p] = "done" => result[p] = ret[p]

C3_Witness ==
    /\ pc[1] = "done"
    /\ osname = "posix"
    /\ shells[1][1].code = 1
    /\ result[1] = 256
    /\ args[1].open_browser
    /\ Len(shells[1]) = 1

\* C8 as stated: without an output argument the output path is the
\* absolute template path with only its trailing '.ipynb' turned into
\* '.html' and the rest of the path unchanged; with an output argument the
\* output path is that argument (made absolute), whatever the template.
C8_OnlyExtensionReplaced ==
    \A p \in Procs :
        Built(p) =>
            output[p] =
                IF args[p].output.given THEN Absolute(args[p].output.path)
                ELSE SubSeq(template[p], 1, Len(template[p]) - Len(Ipynb))
                         \o Html

\* C10: a call hands the conversion to os.system exactly once, as one
\* composite whose last statement is the conversion command and whose
\* other statements are one set (nt) / export (posix) per distinct
\* upper-cased extra key, carrying the string form of the value given
\* last for that key; the command carries --to=html, the output path,
\* --allow-errors and the caller's timeout, and --no-input, --no-prompt,
\* --execute exactly when the corresponding option is true.
C10_Composite ==
    \A p \in Procs :
        /\ Cardinality(Conversions(p)) <= 1
        /\ pc[p] \in {"running", "open", "return", "done"} =>
              Cardinality(Conversions(p)) = 1
        /\ \A i \in Conversions(p) :
              LET st == shells[p][i].stmts
                  n == Len(st)
                  c == st[n][2]
              IN /\ n = 1 + Cardinality({nm \in EnvNames :
                                            Overrides(p, nm) # {}})
                 /\ st[n][1] = "run"
                 /\ \A j \in 1..(n - 1) :
                       /\ st[j][1] = (IF osname = "nt" THEN "set"
                                      ELSE "export")
                       /\ Overrides(p, st[j][2]) # {}
                       /\ st[j][3] = OwnView(p)[st[j][2]]
                       /\ \A k \in 1..(n - 1) : st[k][2] = st[j][2] => k = j
                 /\ c.prog = "jupyter nbconvert"
                 /\ c.template = Absolute(args[p].template)
                 /\ c.to = "--to=html"
                 /\ c.output = output[p]
                 /\ c.output # <<>>
                 /\ c.allow_errors = "--allow-errors"
                 /\ c.timeout = args[p].timeout
                 /\ (c.no_input = "--no-input") <=> args[p].no_input
                 /\ (c.no_prompt = "--no-prompt") <=> args[p].no_prompt
                 /\ (c.execute = "--execute") <=> args[p].execute
                 /\ c.no_input \in {"", "--no-input"}
                 /\ c.no_prompt \in {"", "--no-prompt"}
                 /\ c.execute \in {"", "--execute"}

C10_Witness ==
    /\ pc[1] = "done"
    /\ Len(args[1].kwargs) = 2
    /\ Len(shells[1][1].stmts) = 2
    /\ shells[1][1].stmts[1] = <<"export", "A", "2">>
    /\ args[1].no_input /\ ~args[1].no_prompt /\ ~args[1].execute
    /\ args[1].timeout = 30
----------------------------------------------------------------------------
(* Claims about the sheet builders *)

Running(b, sh) == sheet[b] = sh /\ spc[b] \notin {"idle", "subplots"}
Done(b, sh) == sheet[b] = sh /\ spc[b] = "done"

\* the slots of build b, and the panels drawn into them
Cells(b) == DOMAIN grid[b].axes
Slot(b, k) == grid[b].axes[Flat(grid[b], k)]
Blank(b) == {c \in Cells(b) : grid[b].axes[c] = <<>>}

RECURSIVE DrawsUpTo(_, _)
DrawsUpTo(b, k) ==
    IF k < 0 THEN 0 ELSE Len(Slot(b, k)) + DrawsUpTo(b, k - 1)
TotalDraws(b) == DrawsUpTo(b, FlatLen(grid[b]) - 1)

\* C4: in create_2x3_sheet the grid has 2 rows and ceil((3 + len(periods))
\* / 2) columns, i.e. the least number of columns whose 2 rows hold all
\* panels, and the finished sheet holds 3 + len(periods) panels; periods =
\* (2, 5, 10) gives 6 panels in 2 x 3 with no blank slot.
C4_PanelCountAndColumns ==
    \A b \in Builds :
        Running(b, "2x3") =>
            LET n == 3 + Len(sargs[b].periods)
                g == grid[b]
            IN /\ g.nrows = 2
               /\ 2 * g.ncols >= n
               /\ 2 * (g.ncols - 1) < n
               /\ spc[b] = "done" => TotalDraws(b) = n
               /\ (spc[b] = "done" /\ sargs[b].periods = <<2, 5, 10>>) =>
                     /\ g.ncols = 3
                     /\ TotalDraws(b) = 6
                     /\ Blank(b) = {}

C4_Witness ==
    /\ Done(1, "2x3")
    /\ sargs[1].periods = <<2, 5, 10>>
    /\ grid[1].nrows = 2 /\ grid[1].ncols = 3
    /\ TotalDraws(1) = 6

\* C5: in create_2x3_sheet flat slot 0 gets the IC time series, slot 1 the
\* IC histogram, slot 2 the IC monthly heatmap and slot 3 + i the
\* cumulative-return curve of the i-th period, in the order given; every
\* slot index used is below 2 * columns (no IndexError), no slot is drawn
\* into twice, and the blank slots of the finished sheet are none when the
\* panel count is even and exactly the last slot of the second row when it
\* is odd.
C5_SlotAssignment ==
    \A b \in Builds :
        sheet[b] = "2x3" =>
            LET n == 3 + Len(sargs[b].periods)
                g == grid[b]
            IN /\ spc[b] # "IndexError"
               /\ \A c \in Cells(b) : Len(g.axes[c]) <= 1
               /\ spc[b] = "done" =>
                     /\ n <= 2 * g.ncols
                     /\ Len(Slot(b, 0)) = 1
                     /\ Slot(b, 0)[1].plot = "plot_ic_ts"
                     /\ Len(Slot(b, 1)) = 1
                     /\ Slot(b, 1)[1].plot = "plot_hist"
                     /\ Slot(b, 1)[1].data.fn = "calc_ic"
                     /\ Len(Slot(b, 2)) = 1
                     /\ Slot(b, 2)[1].plot = "plot_ic_heatmap_monthly"
                     /\ \A i \in 0..(Len(sargs[b].periods) - 1) :
                           /\ Len(Slot(b, 3 + i)) = 1
                           /\ Slot(b, 3 + i)[1].plot
                                 = "plot_quantile_portfolio"
                           /\ Slot(b, 3 + i)[1].period
                                 = sargs[b].periods[i + 1]
                           /\ Slot(b, 3 + i)[1].data.fn
                                 = "calc_cum_return_by_quantile"
                           /\ Slot(b, 3 + i)[1].data.period
                                 = sargs[b].periods[i + 1]
                     /\ Blank(b) = IF n % 2 = 1 THEN {<<1, g.ncols - 1>>}
                                   ELSE {}

C5_Witness ==
    /\ Done(1, "2x3")
    /\ sargs[1].periods = <<10, 2>>
    /\ grid[1].ncols = 3
    /\ Blank(1) = {<<1, 2>>}
    /\ Slot(1, 3)[1].period = 10
    /\ Slot(1, 4)[1].period = 2

\* the quantile labels in the turnover table of build b
TurnoverLabels(b) ==
    LET col == TurnoverColumn(loc[b].df_turnover, sargs[b].factor_quantile)
    IN {col[i] : i \in 1..Len(col)}

\* C6: in create_3x2_sheet the quantile handed to the turnover panel is
\* the greatest label found in the quantile column of the turnover table,
\* whatever the row order, and the panel is drawn from that same table.
C6_MaxQuantile ==
    \A b \in Builds :
        Done(b, "3x2") =>
            LET p == grid[b].axes[<<2, 1>>]
            IN /\ Len(p) = 1
               /\ p[1].plot = "plot_turnover_quantile"
               /\ p[1].data = loc[b].df_turnover
               /\ p[1].data.fn = "calc_quantile_turnover"
               /\ p[1].fq = sargs[b].factor_quantile
               /\ p[1].quantile \in TurnoverLabels(b)
               /\ \A l \in TurnoverLabels(b) : l <= p[1].quantile

C6_Witness ==
    /\ Done(1, "3x2")
    /\ sargs[1].df_pl.fq = <<2, 1>>
    /\ sargs[1].factor_quantile = "fq"
    /\ grid[1].axes[<<2, 1>>][1].quantile = 2

CallsOf(b, fn) == {i \in 1..Len(calls[b]) : calls[b][i].fn = fn}
PanelsOf(b) ==
    UNION {{grid[b].axes[c][j] : j \in 1..Len(grid[b].axes[c])} :
              c \in Cells(b)}

====
